---- MODULE Spec2Model ----
(***************************************************************************)
(* Model of the iPod manager: the SQLite catalog (ipod_db.LibraryDB), the   *)
(* libgpod-backed sync engine (ipod_sync.iPodSync) and the window handlers  *)
(* that drive them (ipod_manager.IPodManagerWindow).                        *)
(*                                                                         *)
(* Strings are sequences of small naturals; 0 is the NUL character, at      *)
(* which a C string ends.  A catalog row is a record keyed by its rowid.    *)
(***************************************************************************)
EXTENDS Integers, Sequences, FiniteSets, TLC

VARIABLES
    tracks,          \* table tracks: rowid -> row
    nextId,          \* AUTOINCREMENT counter of table tracks
    playlist_tracks, \* table playlist_tracks of the imported playlist: set of track ids
    files,           \* the source files that exist on the host
    mounted,         \* a volume with an iPod_Control directory is mounted
    sysInfoExt,      \* iPod_Control/Device/SysInfoExtended exists on the device
    ipodDb,          \* the iTunesDB file on the device
    mountpoint,      \* iPodSync.mountpoint
    pc,              \* position of the sync run
    itdb,            \* the parsed database the run mutates in memory
    unsynced,        \* sync's local: the rows get_unsynced returned
    idx,             \* sync's local: position in unsynced
    done,            \* sync's local
    total,           \* sync's local
    rmv,             \* sync's local: tracks_to_remove, not yet removed
    result,          \* what the last sync call gave its caller
    run,             \* record of what the run in progress (or the last run) did
    ipod_artwork,    \* table ipod_artwork: rowid -> row
    op,              \* record of what the last catalog insert did
    sysInfo,         \* content of iPod_Control/Device/SysInfo on the device
    boot,            \* record of what the last detection or initialisation did
    btn_sync,        \* the Sync button is sensitive
    caller,          \* who called the sync run in progress
    stack,           \* the sync calls suspended in their progress callback
    btn_eject,       \* the Eject button is sensitive
    idle,            \* the callbacks posted with GLib.idle_add, not yet run
    worker           \* the thread of the playlist import (_import_worker)

vars == <<tracks, nextId, playlist_tracks, files, mounted, sysInfoExt, ipodDb,
          mountpoint, pc, itdb, unsynced, idx, done, total, rmv, result, run,
          ipod_artwork, op, sysInfo, boot, btn_sync, caller, stack, btn_eject,
          idle, worker>>

uiVars == <<btn_sync, btn_eject, caller, stack>>

importVars == <<idle, worker>>

catalogVars == <<tracks, nextId, playlist_tracks, ipod_artwork>>
deviceVars  == <<mounted, sysInfoExt, ipodDb, mountpoint, sysInfo>>
syncVars    == <<pc, itdb, unsynced, idx, done, total, rmv, result, run>>

-----------------------------------------------------------------------------
\* Bounds

\* rowids the catalog hands out in one behaviour
MaxId == 2

Ids == 1..MaxId

\* the source files the user works with: files without embedded cover art
Paths == {"p1", "p2", "p3"}

\* files of one album that carry embedded cover art
ArtPaths == {"q1", "q2", "q3", "q4"}

\* the files the playlist to import names
PlaylistPaths == {"p1", "q1"}

\* the source files that come and go on the host while the program runs
Volatile == {"p2"}

\* what SysInfo may hold when the device is first seen.  The file is text:
\* "K" is the text of a line other than the identifier's, "G" the text
\* "FirewireGuid: 0x<serial>", "NL" a newline.  Empty stands for no file too.
SysInfos == {<<>>, <<"K", "NL">>, <<"K">>, <<"G", "NL">>}

\* a device that was given its identifier before
SysInfoDone == {<<"K", "NL", "G", "NL">>}

\* sync calls that may be suspended, one inside the other, at a time
MaxDepth == 1

\* idle callbacks that may be waiting for the main loop at a time
MaxIdle == 2

\* how the external tool run by initialise may end
ToolOutcomes == {"wrote", "failed", "timeout", "notfound"}

-----------------------------------------------------------------------------
\* Strings and metadata

\* what a C reader sees of a Python string passed as char*: the bytes before
\* the first NUL (g_strdup copies up to it, _str_at reads up to it)
CStr(s) ==
    LET nul == {i \in 1..Len(s) : s[i] = 0}
    IN  IF nul = {} THEN s
        ELSE SubSeq(s, 1, (CHOOSE i \in nul : \A j \in nul : i <= j) - 1)

\* Python's None, and a row id that is NULL
None == 0

\* no embedded picture (cover_art is None)
NoArt == <<>>

\* the tags of each source file: p1 and p2 carry the same (title, artist,
\* album); p3 has a multi-valued title, which mutagen joins with NUL.  Embedded
\* cover art is <<container format, picture>>, format 0 being bytes that are
\* no image: q1 and q2 carry the same bytes, q3 (same album, spelt with an
\* upper-case artist and a trailing blank) another picture, q4 undecodable bytes
extract_metadata(p) ==
    CASE p = "p1" -> [file_path |-> p, title |-> <<1>>, artist |-> <<3>>, album |-> <<4>>,
                      cover_art |-> NoArt]
      [] p = "p2" -> [file_path |-> p, title |-> <<1>>, artist |-> <<3>>, album |-> <<4>>,
                      cover_art |-> NoArt]
      [] p = "p3" -> [file_path |-> p, title |-> <<2, 0, 1>>, artist |-> <<3>>,
                      album |-> <<4>>, cover_art |-> NoArt]
      [] p = "q1" -> [file_path |-> p, title |-> <<1>>, artist |-> <<3>>, album |-> <<4>>,
                      cover_art |-> <<1, 7>>]
      [] p = "q2" -> [file_path |-> p, title |-> <<2>>, artist |-> <<3>>, album |-> <<4>>,
                      cover_art |-> <<1, 7>>]
      [] p = "q3" -> [file_path |-> p, title |-> <<6>>, artist |-> <<5>>,
                      album |-> <<4, 9>>, cover_art |-> <<2, 8>>]
      [] OTHER    -> [file_path |-> p, title |-> <<7>>, artist |-> <<3>>, album |-> <<4>>,
                      cover_art |-> <<0, 7>>]

Triple(r) == <<r.title, r.artist, r.album>>

-----------------------------------------------------------------------------
\* Catalog store (LibraryDB)

RECURSIVE SortedSeq(_)
SortedSeq(S) ==
    IF S = {} THEN <<>>
    ELSE LET m == CHOOSE x \in S : \A y \in S : x <= y
         IN  <<m>> \o SortedSeq(S \ {m})

RowOf(id) == [id |-> id, file_path |-> tracks[id].file_path,
              title |-> tracks[id].title, artist |-> tracks[id].artist,
              album |-> tracks[id].album]

\* the WHERE clause of get_unsynced left out
get_unsynced_ids_nowhere == DOMAIN tracks

get_unsynced_ids == {i \in DOMAIN tracks : tracks[i].synced = 0 /\ tracks[i].deleted = 0}

get_deleted_ids == {i \in DOMAIN tracks : tracks[i].deleted = 1 /\ tracks[i].synced = 1}

\* SELECT * FROM tracks WHERE synced=0 AND deleted=0, in rowid order
get_unsynced == LET ids == SortedSeq(get_unsynced_ids)
                IN  [k \in 1..Len(ids) |-> RowOf(ids[k])]

\* SELECT * FROM tracks WHERE deleted=1 AND synced=1
get_deleted == {RowOf(i) : i \in get_deleted_ids}

\* mark_synced that never commits its UPDATE
mark_synced_lost(t, id) == t

\* UPDATE tracks SET synced=1 WHERE id=?
mark_synced(t, id) ==
    [i \in DOMAIN t |-> IF i = id THEN [t[i] EXCEPT !.synced = 1] ELSE t[i]]

\* DELETE FROM tracks, the WHERE clause left out
purge_deleted_all(t) == [i \in {} |-> t[i]]

\* DELETE FROM tracks WHERE deleted=1
purge_deleted(t) ==
    LET keep == {i \in DOMAIN t : t[i].deleted # 1}
    IN  [i \in keep |-> t[i]]

InsertRow(meta) ==
    [i \in DOMAIN tracks \cup {nextId} |->
        IF i = nextId
        THEN [file_path |-> meta.file_path, title |-> meta.title,
              artist |-> meta.artist, album |-> meta.album,
              synced |-> 0, deleted |-> 0, ipod_artwork_id |-> None]
        ELSE tracks[i]]

-----------------------------------------------------------------------------
\* Album artwork (ipod_db._album_key, _preprocess_artwork,
\* LibraryDB._get_or_create_ipod_artwork)

\* characters: 5 is the upper-case form of 3, 9 is a blank
Lower(c) == IF c = 5 THEN 3 ELSE c

IsSpace(c) == c = 9

\* str.strip()
RECURSIVE Strip(_)
Strip(s) ==
    IF s = <<>> THEN s
    ELSE IF IsSpace(Head(s)) THEN Strip(Tail(s))
    ELSE IF IsSpace(s[Len(s)]) THEN Strip(SubSeq(s, 1, Len(s) - 1))
    ELSE s

\* artist.strip().lower() + "\x00" + album.strip().lower()
album_key(artist, album) ==
    LET low(s) == [k \in 1..Len(s) |-> Lower(s[k])]
    IN  low(Strip(artist)) \o <<0>> \o low(Strip(album))

\* hashlib.sha256(raw).hexdigest(): a digest, distinct for distinct bytes of
\* the pictures at hand
Hash(raw) == (31 * raw[1] + raw[2]) % 97

\* Image.open succeeds
Decodable(raw) == raw[1] # 0

\* _preprocess_artwork: the picture, whatever its container, as a baseline JPEG
preprocess_artwork(raw) == <<3, raw[2]>>

\* the SELECT by album_key finding nothing
ArtRowOf_missed(art, key) == None

\* SELECT id, image_hash FROM ipod_artwork WHERE album_key=?
ArtRowOf(art, key) ==
    IF \E a \in DOMAIN art : art[a].album_key = key
    THEN CHOOSE a \in DOMAIN art : art[a].album_key = key
    ELSE None

\* the cheap path left out: the picture is processed and stored on every call
get_or_create_ipod_artwork_always(art, artist, album, raw) ==
    LET key == album_key(artist, album)
        h   == Hash(raw)
        id  == ArtRowOf(art, key)
        new == Len(art) + 1
    IN  IF ~Decodable(raw)
        THEN [raised |-> TRUE, id |-> None, table |-> art, processed |-> 1, found |-> id]
        ELSE IF id # None
        THEN [raised |-> FALSE, id |-> id, processed |-> 1, found |-> id,
              table |-> [art EXCEPT ![id].image_hash = h,
                                    ![id].image_data = preprocess_artwork(raw)]]
        ELSE [raised |-> FALSE, id |-> new, processed |-> 1, found |-> None,
              table |-> Append(art, [album_key |-> key, image_hash |-> h,
                                     image_data |-> preprocess_artwork(raw)])]

\* changed art stored as a new row instead of in place
get_or_create_ipod_artwork_newrow(art, artist, album, raw) ==
    LET key == album_key(artist, album)
        h   == Hash(raw)
        id  == ArtRowOf(art, key)
        new == Len(art) + 1
    IN  IF id # None /\ art[id].image_hash = h
        THEN [raised |-> FALSE, id |-> id, table |-> art, processed |-> 0, found |-> id]
        ELSE IF ~Decodable(raw)
        THEN [raised |-> TRUE, id |-> None, table |-> art, processed |-> 1, found |-> id]
        ELSE [raised |-> FALSE, id |-> new, processed |-> 1, found |-> id,
              table |-> Append(art, [album_key |-> key, image_hash |-> h,
                                     image_data |-> preprocess_artwork(raw)])]

\* _get_or_create_ipod_artwork on table art: whether _preprocess_artwork
\* raised, the id returned, the table after, how often the picture was
\* processed and the row found for the key (None for none)
get_or_create_ipod_artwork(art, artist, album, raw) ==
    LET key == album_key(artist, album)
        h   == Hash(raw)
        id  == ArtRowOf(art, key)
        new == Len(art) + 1
    IN  IF id # None /\ art[id].image_hash = h
        THEN [raised |-> FALSE, id |-> id, table |-> art, processed |-> 0, found |-> id]
        ELSE IF ~Decodable(raw)
        THEN [raised |-> TRUE, id |-> None, table |-> art, processed |-> 1, found |-> id]
        ELSE IF id # None
        THEN [raised |-> FALSE, id |-> id, processed |-> 1, found |-> id,
              table |-> [art EXCEPT ![id].image_hash = h,
                                    ![id].image_data = preprocess_artwork(raw)]]
        ELSE [raised |-> FALSE, id |-> new, processed |-> 1, found |-> None,
              table |-> Append(art, [album_key |-> key, image_hash |-> h,
                                     image_data |-> preprocess_artwork(raw)])]

\* a file_path column without the UNIQUE constraint
PathTaken_never(p) == FALSE

\* the UNIQUE constraint on file_path
PathTaken(p) == \E i \in DOMAIN tracks : tracks[i].file_path = p

\* LibraryDB.add_track_from_meta, and add_track once the metadata is read: the
\* id returned (None on IntegrityError), whether another exception escaped,
\* the two tables as the connection sees them afterwards, whether the INSERT
\* is left uncommitted, and what _get_or_create_ipod_artwork did if called
add_track_from_meta(meta) ==
    LET noCall == [raised |-> FALSE, id |-> None, processed |-> 0, found |-> None]
        g == get_or_create_ipod_artwork(ipod_artwork, meta.artist, meta.album,
                                        meta.cover_art)
    IN  IF PathTaken(meta.file_path)
        THEN [ret |-> None, raised |-> FALSE, pending |-> FALSE, tracks |-> tracks,
              nextId |-> nextId, table |-> ipod_artwork, called |-> FALSE, g |-> noCall]
        ELSE IF meta.cover_art = NoArt
        THEN [ret |-> nextId, raised |-> FALSE, pending |-> FALSE,
              tracks |-> InsertRow(meta), nextId |-> nextId + 1,
              table |-> ipod_artwork, called |-> FALSE, g |-> noCall]
        ELSE IF g.raised
        THEN [ret |-> None, raised |-> TRUE, pending |-> TRUE,
              tracks |-> InsertRow(meta), nextId |-> nextId + 1,
              table |-> ipod_artwork, called |-> TRUE,
              g |-> [raised |-> TRUE, id |-> None, processed |-> g.processed,
                     found |-> g.found]]
        ELSE [ret |-> nextId, raised |-> FALSE, pending |-> FALSE,
              tracks |-> [InsertRow(meta) EXCEPT ![nextId].ipod_artwork_id = g.id],
              nextId |-> nextId + 1, table |-> g.table, called |-> TRUE,
              g |-> [raised |-> FALSE, id |-> g.id, processed |-> g.processed,
                     found |-> g.found]]

add_track(p) == add_track_from_meta(extract_metadata(p))

\* no insert has run since the last other handler
NoOp ==
    [kind |-> "none", meta |-> extract_metadata("p1"), ret |-> None, raised |-> FALSE,
     pending |-> FALSE, called |-> FALSE,
     g |-> [raised |-> FALSE, id |-> None, processed |-> 0, found |-> None],
     taken |-> FALSE, before |-> <<>>, art_before |-> <<>>]

\* the record of insert a of metadata meta by handler kind
OpOf(kind, meta, a) ==
    [kind |-> kind, meta |-> meta, ret |-> a.ret, raised |-> a.raised,
     pending |-> a.pending, called |-> a.called, g |-> a.g,
     taken |-> \E i \in DOMAIN tracks :
                  tracks[i].file_path = meta.file_path /\ tracks[i].deleted = 0,
     before |-> tracks, art_before |-> ipod_artwork]

\* the row that insert o, made for a file of a playlist, found soft-deleted
\* under its path and undeleted (None for none)
RestoredBy(o) ==
    LET was == {i \in DOMAIN o.before : /\ o.before[i].file_path = o.meta.file_path
                                        /\ o.before[i].deleted = 1}
    IN  IF o.kind = "add_track_from_meta" /\ was # {} THEN CHOOSE i \in was : TRUE
        ELSE None

-----------------------------------------------------------------------------
\* Device database (libgpod's Itdb_iTunesDB, as far as sync uses it)

NoDb == [valid |-> FALSE, has_mpl |-> FALSE, tracks |-> <<>>, mpl |-> <<>>]

\* what itdb_init_ipod writes: no tracks, a master playlist
EmptyDb == [valid |-> TRUE, has_mpl |-> TRUE, tracks |-> <<>>, mpl |-> <<>>]

NextDbid(db) ==
    LET used == {db.tracks[k].dbid : k \in 1..Len(db.tracks)}
    IN  IF used = {} THEN 1
        ELSE 1 + (CHOOSE x \in used : \A y \in used : y <= x)

DevKey(rec) == <<rec.title, rec.artist, rec.album>>


\* a record of the device database: the mirrored strings as C strings, and
\* (for the record's history) the catalog row it came from
NewDevTrack(db, row) ==
    [dbid |-> NextDbid(db), title |-> CStr(row.title), artist |-> CStr(row.artist),
     album |-> CStr(row.album), src |-> row.id]

DevTrack(db, dbid) ==
    CHOOSE r \in {db.tracks[k] : k \in 1..Len(db.tracks)} : r.dbid = dbid

\* itdb_track_add(itdb, track, -1); itdb_playlist_add_track(mpl, track, -1)
itdb_track_add(db, rec) ==
    [db EXCEPT !.tracks = Append(@, rec), !.mpl = Append(@, rec.dbid)]

\* itdb_playlist_remove_track(mpl, tptr); itdb_track_remove(tptr)
itdb_track_remove(db, dbid) ==
    LET keepT == {k \in 1..Len(db.tracks) : db.tracks[k].dbid # dbid}
        keepM == {k \in 1..Len(db.mpl) : db.mpl[k] # dbid}
        ixT   == SortedSeq(keepT)
        ixM   == SortedSeq(keepM)
    IN  [db EXCEPT !.tracks = [k \in 1..Len(ixT) |-> db.tracks[ixT[k]]],
                   !.mpl    = [k \in 1..Len(ixM) |-> db.mpl[ixM[k]]]]

\* a database without a master playlist
NoMplDb == [valid |-> TRUE, has_mpl |-> FALSE, tracks |-> <<>>, mpl |-> <<>>]

-----------------------------------------------------------------------------
\* Device bootstrap (iPodSync.detect_ipod, needs_init)

NoMount == "None"

detect_ipod(isMounted) == IF isMounted THEN "ipod" ELSE NoMount

needs_init(mp, ext) == IF mp = NoMount THEN FALSE ELSE ~ext

\* "FirewireGuid" in contents
HasGuidText(c) == \E k \in 1..Len(c) : c[k] = "G"

\* what lsusb may show of a 16-hex-digit serial; it is not run when the text
\* is there
LsusbOutcomes(c) == IF HasGuidText(c) THEN {FALSE} ELSE BOOLEAN

\* _ensure_firewire_guid on content c; serial tells whether lsusb showed a
\* 16-hex-digit serial
ensure_firewire_guid(c, serial) ==
    IF HasGuidText(c) THEN c
    ELSE IF ~serial THEN c
    ELSE c \o <<"G", "NL">>

\* initialise taking the tool's exit for the result, without looking for the
\* file
initialise_unverified(mp, isMounted, ext, tool) ==
    IF mp = NoMount
    THEN [ok |-> FALSE, msg |-> "No iPod detected", ran |-> FALSE, ext |-> ext]
    ELSE IF tool = "timeout"
    THEN [ok |-> FALSE, msg |-> "Timed out waiting for authorisation", ran |-> FALSE,
          ext |-> ext]
    ELSE IF tool = "notfound"
    THEN [ok |-> FALSE, msg |-> "pkexec or ipod-read-sysinfo-extended not found",
          ran |-> FALSE, ext |-> ext]
    ELSE [ok |-> TRUE, msg |-> "iPod initialised successfully", ran |-> TRUE,
          ext |-> ext \/ (isMounted /\ tool = "wrote")]

\* iPodSync.initialise: the pair returned, whether subprocess.run returned,
\* and whether SysInfoExtended is on the device afterwards
initialise(mp, isMounted, ext, tool) ==
    IF mp = NoMount
    THEN [ok |-> FALSE, msg |-> "No iPod detected", ran |-> FALSE, ext |-> ext]
    ELSE IF tool = "timeout"
    THEN [ok |-> FALSE, msg |-> "Timed out waiting for authorisation", ran |-> FALSE,
          ext |-> ext]
    ELSE IF tool = "notfound"
    THEN [ok |-> FALSE, msg |-> "pkexec or ipod-read-sysinfo-extended not found",
          ran |-> FALSE, ext |-> ext]
    ELSE LET e == ext \/ (isMounted /\ tool = "wrote")
         IN  IF isMounted /\ e
             THEN [ok |-> TRUE, msg |-> "iPod initialised successfully", ran |-> TRUE,
                   ext |-> e]
             ELSE [ok |-> FALSE, msg |-> "Initialisation failed", ran |-> TRUE,
                   ext |-> e]

\* no detection or initialisation has run since the last other handler
NoBoot ==
    [kind |-> "none", ensured |-> FALSE, serial |-> FALSE, sys_before |-> <<>>,
     needed |-> FALSE, ok |-> FALSE, ran |-> FALSE]

-----------------------------------------------------------------------------
\* The sync run (iPodSync.sync)

NotRunning == pc \in {"idle", "done", "raised"} /\ stack = <<>>

NoResult == [kind |-> "pending", msg |-> "", added |-> 0, removed |-> 0, failed |-> 0]

\* sync has no return statement: a run that ends normally gives None
ReturnValue == [kind |-> "None", msg |-> "", added |-> 0, removed |-> 0, failed |-> 0]

Raise(m) == [kind |-> "raised", msg |-> m, added |-> 0, removed |-> 0, failed |-> 0]

NoRun ==
    [opened |-> FALSE, needs_init |-> FALSE, b2b |-> FALSE,
     ftouched |-> FALSE, fsame |-> FALSE,
     start |-> <<>>, skipped |-> {}, cpfail |-> {}, copied |-> {}, marked |-> {},
     deleted |-> {}, removed |-> {}, purged |-> FALSE,
     writes |-> 0, wrote |-> FALSE, phases |-> <<>>, log |-> <<>>, fracs |-> <<>>,
     restored |-> None]

\* the completion fractions passed to the progress callback, as <<numerator,
\* denominator>>: done / max(total, 1) before a copy and before a removal,
\* 0.95 before the write and 1.0 after it
Fraction(d, t) == <<d, IF t > 1 THEN t ELSE 1>>

WriteFraction == <<19, 20>>

DoneFraction == <<1, 1>>

\* the check of the master playlist left out
OpenDevice_nompl(mp, isMounted, file, initOk, reparseOk) ==
    IF mp = NoMount
    THEN [err |-> "No iPod detected", itdb |-> NoDb, file |-> file]
    ELSE IF isMounted /\ file.valid
    THEN [err |-> "", itdb |-> file, file |-> file]
    ELSE IF ~(isMounted /\ initOk)
    THEN [err |-> "Failed to initialise iPod database", itdb |-> NoDb, file |-> file]
    ELSE IF ~reparseOk
    THEN [err |-> "Failed to parse iPod database after init", itdb |-> NoDb,
          file |-> EmptyDb]
    ELSE [err |-> "", itdb |-> EmptyDb, file |-> EmptyDb]

\* lines 355-373: the mountpoint check, itdb_parse, the fall-back to
\* itdb_init_ipod and the second parse, the master playlist.  Gives the error
\* raised ("" for none), the parsed database and the file left on the device.
OpenDevice(mp, isMounted, file, initOk, reparseOk) ==
    IF mp = NoMount
    THEN [err |-> "No iPod detected", itdb |-> NoDb, file |-> file]
    ELSE IF isMounted /\ file.valid
    THEN IF file.has_mpl
         THEN [err |-> "", itdb |-> file, file |-> file]
         ELSE [err |-> "No master playlist found on iPod", itdb |-> NoDb, file |-> file]
    ELSE IF ~(isMounted /\ initOk)
    THEN [err |-> "Failed to initialise iPod database", itdb |-> NoDb, file |-> file]
    ELSE IF ~reparseOk
    THEN [err |-> "Failed to parse iPod database after init", itdb |-> NoDb,
          file |-> EmptyDb]
    ELSE [err |-> "", itdb |-> EmptyDb, file |-> EmptyDb]

\* the additions loop without its `continue`: a row whose file is missing is
\* appended and marked like any other
AddOne_noskip(t, db, d, row, exists, cpOk) ==
    [tracks |-> mark_synced(t, row.id),
     itdb   |-> itdb_track_add(db, NewDevTrack(db, row)),
     done   |-> d + 1, raised |-> FALSE, marked |-> TRUE]

\* the additions loop raising on a row whose file is missing
AddOne_raise(t, db, d, row, exists, cpOk) ==
    IF ~exists
    THEN [tracks |-> t, itdb |-> db, done |-> d, raised |-> TRUE, marked |-> FALSE]
    ELSE [tracks |-> mark_synced(t, row.id),
          itdb   |-> itdb_track_add(db, NewDevTrack(db, row)),
          done   |-> d + 1, raised |-> FALSE, marked |-> TRUE]

\* lines 380-416, one iteration of the additions loop for `row`: the catalog,
\* the in-memory database and the counter after it, and whether it raised
AddOne(t, db, d, row, exists, cpOk) ==
    IF ~exists
    THEN [tracks |-> t, itdb |-> db, done |-> d + 1, raised |-> FALSE,
          marked |-> FALSE]
    ELSE [tracks |-> mark_synced(t, row.id),
          itdb   |-> itdb_track_add(db, NewDevTrack(db, row)),
          done   |-> d + 1, raised |-> FALSE, marked |-> TRUE]

\* the collection loop stopping at the first matching device record
TracksToRemove_first(db, deleted) ==
    LET to_remove == {Triple(r) : r \in deleted}
        hit == {k \in 1..Len(db.tracks) : DevKey(db.tracks[k]) \in to_remove}
    IN  IF hit = {} THEN <<>>
        ELSE <<db.tracks[CHOOSE k \in hit : \A j \in hit : k <= j].dbid>>

\* lines 419-431: the device records whose (title, artist, album) is that of
\* a row of the deleted set, in list order
TracksToRemove(db, deleted) ==
    LET to_remove == {Triple(r) : r \in deleted}
        hit == {k \in 1..Len(db.tracks) : DevKey(db.tracks[k]) \in to_remove}
        ix  == SortedSeq(hit)
    IN  [k \in 1..Len(ix) |-> db.tracks[ix[k]].dbid]

\* line 423 and 441: purge_deleted runs when to_remove is not empty
PurgeAfterRemovals(t, deleted) == IF deleted # {} THEN purge_deleted(t) ELSE t

\* lines 447-451: itdb_write, all or nothing
WriteDevice(file, db, ok) == IF ok THEN db ELSE file

\* the result of itdb_write not looked at
AfterWrite_ignored(ok) == "done"

\* lines 450-454: how the call ends after itdb_write returned ok
AfterWrite(ok) == IF ok THEN "done" ELSE "raised"


\* no import of the playlist has been started
NoImport == [pc |-> "off", todo |-> <<>>, posted |-> <<>>, ran |-> <<>>, fin |-> FALSE]

-----------------------------------------------------------------------------
\* Initial state: the window has been constructed (an empty catalog, the device
\* detected if it is mounted), whatever the device holds, the host holding the
\* files fs and SysInfo having been one of contents when the device was plugged

Start(fs, contents) ==
    /\ tracks = <<>>
    /\ nextId = 1
    /\ playlist_tracks = {}
    /\ files = fs
    /\ mounted \in BOOLEAN
    /\ sysInfoExt \in BOOLEAN
    /\ ipodDb \in {NoDb, NoMplDb}
    /\ mountpoint = detect_ipod(mounted)
    /\ pc = "idle"
    /\ itdb = NoDb
    /\ unsynced = <<>>
    /\ idx = 0
    /\ done = 0
    /\ total = 0
    /\ rmv = <<>>
    /\ result = NoResult
    /\ run = NoRun
    /\ ipod_artwork = <<>>
    /\ op = NoOp
    /\ btn_sync = mounted
    /\ btn_eject = mounted
    /\ caller = "none"
    /\ stack = <<>>
    /\ idle = <<>>
    /\ worker = NoImport
    /\ \E c \in contents : \E serial \in LsusbOutcomes(c) :
          sysInfo = IF mounted THEN ensure_firewire_guid(c, serial) ELSE c
    /\ boot = NoBoot

\* the user works with files that carry no cover art
Init == Start(Paths, SysInfoDone)

\* the user works with the files of an album that carry cover art
InitArt == Start(ArtPaths, SysInfoDone)

\* the user works with one file, and the device is new to this host
InitBoot == Start({"p1"}, SysInfos)

\* the user works with one file
InitUI == Start({"p1"}, SysInfoDone)

\* the sync call has returned: its locals are gone
Returned ==
    /\ itdb' = NoDb
    /\ unsynced' = <<>>
    /\ idx' = 0
    /\ done' = 0
    /\ total' = 0
    /\ rmv' = <<>>

\* a handler other than sync runs: the last run is history
Between ==
    /\ pc' = "idle"
    /\ result' = NoResult
    /\ run' = NoRun
    /\ UNCHANGED <<itdb, unsynced, idx, done, total, rmv>>

-----------------------------------------------------------------------------
\* Catalog operations

\* LibraryDB.add_track for one file dropped or chosen
AddTrack(p) ==
    /\ NotRunning
    /\ p \in files
    /\ PathTaken(p) \/ nextId <= MaxId
    /\ boot' = NoBoot
    /\ LET a == add_track(p)
       IN  /\ tracks' = a.tracks
           /\ nextId' = a.nextId
           /\ ipod_artwork' = a.table
           /\ op' = OpOf("add_track", extract_metadata(p), a)
    /\ Between
    /\ UNCHANGED <<playlist_tracks, files, deviceVars, uiVars, importVars>>

\* LibraryDB.remove_track: UPDATE tracks SET deleted=1 WHERE id=?
remove_track(t, id) ==
    [i \in DOMAIN t |-> IF i = id THEN [t[i] EXCEPT !.deleted = 1] ELSE t[i]]

\* _on_remove_clicked for one selected row of the list (the list shows the
\* rows with deleted=0)
RemoveClicked(id) ==
    /\ NotRunning
    /\ id \in DOMAIN tracks
    /\ tracks[id].deleted = 0
    /\ tracks' = remove_track(tracks, id)
    /\ op' = NoOp
    /\ boot' = NoBoot
    /\ Between
    /\ UNCHANGED <<nextId, playlist_tracks, ipod_artwork, files, deviceVars, uiVars, importVars>>

\* _add_track_from_worker for the metadata of one file of the playlist:
\* add_track_from_meta, else look the row up and undelete it; then the
\* playlist membership
WorkerInsert(p) ==
    /\ PathTaken(p) \/ nextId <= MaxId
    /\ LET meta == extract_metadata(p)
           a    == add_track_from_meta(meta)
       IN  /\ nextId' = a.nextId
           /\ ipod_artwork' = a.table
           /\ op' = OpOf("add_track_from_meta", meta, a)
           /\ IF a.raised
              THEN /\ tracks' = a.tracks
                   /\ UNCHANGED playlist_tracks
              ELSE IF a.ret = None
              THEN LET id == CHOOSE i \in DOMAIN tracks : tracks[i].file_path = p
                   IN  /\ tracks' = [tracks EXCEPT ![id].deleted = 0]
                       /\ playlist_tracks' = playlist_tracks \cup {id}
              ELSE /\ tracks' = a.tracks
                   /\ playlist_tracks' = playlist_tracks \cup {a.ret}

\* the import of a playlist has delivered the metadata of file p to
\* _add_track_from_worker
AddTrackFromWorker(p) ==
    /\ NotRunning
    /\ p \in files
    /\ boot' = NoBoot
    /\ WorkerInsert(p)
    /\ Between
    /\ UNCHANGED <<files, deviceVars, uiVars, importVars>>

-----------------------------------------------------------------------------
\* Environment

\* a source file is deleted from, or restored to, the host.  A run looks at
\* each source file once, so a change during a run acts on it as the same
\* change before or after the run does.
FileChanged(p) ==
    /\ NotRunning
    /\ files' = IF p \in files THEN files \ {p} ELSE files \cup {p}
    /\ pc' = "idle"
    /\ result' = NoResult
    /\ run' = IF run.opened THEN [NoRun EXCEPT !.opened = TRUE, !.ftouched = TRUE]
              ELSE NoRun
    /\ op' = NoOp
    /\ boot' = NoBoot
    /\ UNCHANGED <<itdb, unsynced, idx, done, total, rmv>>
    /\ UNCHANGED <<catalogVars, deviceVars, uiVars, importVars>>

\* iPodSync.detect_ipod, which sets the mountpoint and, for a device found,
\* runs _ensure_firewire_guid
Detect(isMounted) ==
    \E serial \in LsusbOutcomes(sysInfo) :
        /\ mountpoint' = detect_ipod(isMounted)
        /\ sysInfo' = IF isMounted THEN ensure_firewire_guid(sysInfo, serial)
                      ELSE sysInfo
        /\ boot' = [NoBoot EXCEPT !.kind = "detect", !.ensured = isMounted,
                                  !.serial = isMounted /\ serial,
                                  !.sys_before = sysInfo]

\* IPodManagerWindow._detect_ipod: detect_ipod, and the buttons set by what
\* it found
DetectIpod(isMounted) ==
    /\ Detect(isMounted)
    /\ btn_sync' = (detect_ipod(isMounted) # NoMount)
    /\ btn_eject' = (detect_ipod(isMounted) # NoMount)

\* the iPod is plugged in or pulled out, and _on_mount_changed runs
\* _detect_ipod
MountChanged ==
    /\ NotRunning
    /\ mounted' = ~mounted
    /\ DetectIpod(~mounted)
    /\ op' = NoOp
    /\ Between
    /\ UNCHANGED <<catalogVars, files, sysInfoExt, ipodDb, caller, stack, importVars>>

\* _on_init_response with "Initialise" chosen: the dialog that _prompt_init
\* raised is answered, whatever has become of the device since, and
\* iPodSync.initialise runs the external tool
Initialise ==
    /\ NotRunning
    /\ \E tool \in ToolOutcomes : \E serial \in LsusbOutcomes(sysInfo) :
         LET i == initialise(mountpoint, mounted, sysInfoExt, tool)
         IN  /\ sysInfoExt' = i.ext
             /\ sysInfo' = IF i.ok THEN ensure_firewire_guid(sysInfo, serial)
                           ELSE sysInfo
             /\ boot' = [NoBoot EXCEPT !.kind = "initialise", !.ensured = i.ok,
                                       !.serial = i.ok /\ serial,
                                       !.sys_before = sysInfo,
                                       !.needed = needs_init(mountpoint, sysInfoExt),
                                       !.ok = i.ok, !.ran = i.ran]
    /\ op' = NoOp
    /\ Between
    /\ UNCHANGED <<catalogVars, files, mounted, ipodDb, mountpoint, uiVars, importVars>>


-----------------------------------------------------------------------------
\* The sync run, step by step

\* the record of a run that begins with mountpoint mp after the run (if any)
\* that prev records
NewRun(mp, prev) ==
    [NoRun EXCEPT !.needs_init = needs_init(mp, sysInfoExt),
                  !.b2b = prev.opened,
                  !.fsame = ~prev.ftouched,
                  !.start = tracks,
                  !.restored = RestoredBy(op),
                  !.phases = <<"Idle">>]

\* lines 375-378: the locals of a run by who that opened the device as o
StartRun(mp, o, who, prev) ==
    /\ pc' = "add"
    /\ result' = NoResult
    /\ run' = [NewRun(mp, prev) EXCEPT
                  !.opened = TRUE,
                  !.phases = <<"Idle", "DeviceOpened", "Additions">>,
                  !.log = <<"open">>]
    /\ itdb' = o.itdb
    /\ unsynced' = get_unsynced
    /\ total' = Len(get_unsynced) + Cardinality(get_deleted)
    /\ done' = 0
    /\ idx' = 1
    /\ rmv' = <<>>
    /\ caller' = who

\* iPodSync.sync, lines 355-378, called by who with mountpoint mp
Begin(mp, who) ==
    \E initOk, reparseOk \in BOOLEAN :
        LET o == OpenDevice(mp, mounted, ipodDb, initOk, reparseOk)
        IN  /\ ipodDb' = o.file
            /\ op' = NoOp
            /\ IF o.err # ""
               THEN /\ pc' = "raised"
                    /\ result' = Raise(o.err)
                    /\ run' = [NewRun(mp, run) EXCEPT !.phases = <<"Idle", "Failed">>]
                    /\ caller' = "none"
                    /\ Returned
               ELSE StartRun(mp, o, who, run)

\* some caller runs ipod.sync(db)
SyncCalled ==
    /\ NotRunning
    /\ Begin(mountpoint, "call")
    /\ boot' = NoBoot
    /\ UNCHANGED <<catalogVars, files, mounted, sysInfoExt, mountpoint, sysInfo,
                   btn_sync, btn_eject, stack, importVars>>

\* _on_sync_clicked, lines 587-620, on a click of the sensitive button:
\* detect the device if none is known, stop if there is none or it needs
\* initialisation, else make the button insensitive and run ipod.sync; the
\* finally clause makes it sensitive again when the call has ended
SyncClicked ==
    /\ NotRunning
    /\ btn_sync
    /\ IF mountpoint = NoMount
       THEN Detect(mounted)
       ELSE /\ boot' = NoBoot
            /\ UNCHANGED <<mountpoint, sysInfo>>
    /\ IF mountpoint' = NoMount \/ needs_init(mountpoint', sysInfoExt)
       THEN /\ Between
            /\ op' = NoOp
            /\ btn_sync' = (mountpoint' # NoMount)
            /\ UNCHANGED <<ipodDb, caller>>
       ELSE /\ Begin(mountpoint', "click")
            /\ btn_sync' = (pc' # "add")
    /\ UNCHANGED <<catalogVars, files, mounted, sysInfoExt, stack, btn_eject,
                   importVars>>

\* lines 380-416: one iteration of the additions loop
SyncAddStep ==
    /\ pc = "add"
    /\ idx <= Len(unsynced)
    /\ LET row == unsynced[idx]
           exists == row.file_path \in files
       IN  \E cpOk \in BOOLEAN :
             LET a == AddOne(tracks, itdb, done, row, exists, cpOk)
             IN  /\ tracks' = a.tracks
                 /\ itdb' = a.itdb
                 /\ done' = a.done
                 /\ idx' = idx + 1
                 /\ IF a.raised
                    THEN /\ pc' = "raised"
                         /\ result' = Raise("Failed to copy")
                    ELSE /\ pc' = "add"
                         /\ result' = result
                 /\ run' = [run EXCEPT
                       !.skipped = IF ~exists THEN @ \cup {row.id} ELSE @,
                       !.cpfail  = IF exists /\ ~cpOk THEN @ \cup {row.id} ELSE @,
                       !.copied  = IF exists /\ cpOk THEN @ \cup {row.id} ELSE @,
                       !.marked  = IF a.marked THEN @ \cup {row.id} ELSE @,
                       !.log     = @ \o (IF exists THEN <<"cb_copy", "add">>
                                         ELSE <<"skip">>),
                       !.fracs   = IF exists THEN Append(@, Fraction(done, total))
                                   ELSE @]
    /\ UNCHANGED <<nextId, playlist_tracks, ipod_artwork, op, boot, files,
                   deviceVars, unsynced, total, rmv, uiVars, importVars>>

\* lines 419-431: the deleted set and the device records to remove
SyncCollect ==
    /\ pc = "add"
    /\ idx > Len(unsynced)
    /\ rmv' = TracksToRemove(itdb, get_deleted)
    /\ pc' = IF get_deleted # {} THEN "remove" ELSE "write"
    /\ run' = [run EXCEPT !.deleted = get_deleted_ids,
                          !.phases = Append(@, "Removals")]
    /\ UNCHANGED <<catalogVars, op, boot, files, deviceVars, itdb, unsynced, idx,
                   done, total, result, uiVars, importVars>>

\* lines 433-439: one iteration of the removal loop
SyncRemoveStep ==
    /\ pc = "remove"
    /\ rmv # <<>>
    /\ itdb' = itdb_track_remove(itdb, Head(rmv))
    /\ rmv' = Tail(rmv)
    /\ done' = done + 1
    /\ run' = [run EXCEPT !.removed = @ \cup {DevTrack(itdb, Head(rmv))},
                          !.log = @ \o <<"cb_rm", "rm">>,
                          !.fracs = Append(@, Fraction(done, total))]
    /\ UNCHANGED <<catalogVars, op, boot, files, deviceVars, pc, unsynced, idx,
                   total, result, uiVars, importVars>>

\* line 441: purge_deleted, once the removal loop is through
SyncPurge ==
    /\ pc = "remove"
    /\ rmv = <<>>
    /\ tracks' = PurgeAfterRemovals(tracks, run.deleted)
    /\ playlist_tracks' = playlist_tracks \cap DOMAIN tracks'
    /\ pc' = "write"
    /\ run' = [run EXCEPT !.purged = TRUE]
    /\ UNCHANGED <<nextId, ipod_artwork, op, boot, files, deviceVars, itdb,
                   unsynced, idx, done, total, rmv, result, uiVars, importVars>>

\* lines 444-454: itdb_write, itdb_free, and the return or the error
SyncWrite ==
    /\ pc = "write"
    /\ \E ok \in BOOLEAN :
         /\ ipodDb' = WriteDevice(ipodDb, itdb, ok /\ mounted)
         /\ pc' = AfterWrite(ok /\ mounted)
         /\ result' = IF pc' = "done" THEN ReturnValue
                      ELSE Raise("Failed to write iPod database")
         /\ run' = [run EXCEPT !.writes = @ + 1, !.wrote = ok /\ mounted,
                               !.phases = @ \o <<"Committing",
                                   IF pc' = "done" THEN "Done" ELSE "Failed">>,
                               !.log = @ \o <<"cb_write", "write">>
                                         \o (IF pc' = "done" THEN <<"cb_done">>
                                             ELSE <<>>),
                               !.fracs = @ \o <<WriteFraction>>
                                           \o (IF pc' = "done" THEN <<DoneFraction>>
                                               ELSE <<>>)]
    /\ Returned
    /\ btn_sync' = IF caller = "click" THEN TRUE ELSE btn_sync
    /\ caller' = "none"
    /\ UNCHANGED <<catalogVars, op, boot, files, mounted, sysInfoExt, mountpoint,
                   sysInfo, stack, btn_eject, importVars>>

-----------------------------------------------------------------------------
\* Events handled inside a run.  The progress callback that _on_sync_clicked
\* passes to sync runs the main loop until no event is pending, so handlers
\* run inside the sync call: before a copy, before a removal, before the write.

\* the run in progress is about to invoke its progress callback
AtCallback ==
    /\ caller = "click"
    /\ \/ pc = "add" /\ idx <= Len(unsynced) /\ unsynced[idx].file_path \in files
       \/ pc = "remove" /\ rmv # <<>>
       \/ pc = "write"

\* a mount-added or mount-removed notification (for the iPod, whose mount
\* changes, or for another volume) is handled inside the callback:
\* _on_mount_changed runs _detect_ipod
PumpMountChanged ==
    /\ AtCallback
    /\ \E m \in BOOLEAN :
         /\ mounted' = m
         /\ DetectIpod(m)
    /\ UNCHANGED <<catalogVars, op, files, sysInfoExt, ipodDb, caller, stack,
                   importVars>>
    /\ UNCHANGED <<pc, itdb, unsynced, idx, done, total, rmv, result, run>>

\* the locals of the sync call in progress
Frame ==
    [pc |-> pc, itdb |-> itdb, unsynced |-> unsynced, idx |-> idx, done |-> done,
     total |-> total, rmv |-> rmv, result |-> result, run |-> run]

\* a click on the Sync button is handled inside the callback:
\* _on_sync_clicked runs, and its sync call begins inside the one in progress
PumpSyncClicked ==
    /\ AtCallback
    /\ btn_sync
    /\ Len(stack) < MaxDepth
    /\ IF mountpoint = NoMount
       THEN Detect(mounted)
       ELSE /\ boot' = NoBoot
            /\ UNCHANGED <<mountpoint, sysInfo>>
    /\ IF mountpoint' = NoMount \/ needs_init(mountpoint', sysInfoExt)
       THEN /\ btn_sync' = (mountpoint' # NoMount)
            /\ UNCHANGED <<ipodDb, caller, stack, op>>
            /\ UNCHANGED <<pc, itdb, unsynced, idx, done, total, rmv, result, run>>
       ELSE \E initOk, reparseOk \in BOOLEAN :
              LET o == OpenDevice(mountpoint', mounted, ipodDb, initOk, reparseOk)
              IN  /\ ipodDb' = o.file
                  /\ op' = NoOp
                  /\ IF o.err # ""
                     THEN /\ btn_sync' = TRUE
                          /\ UNCHANGED <<caller, stack>>
                          /\ UNCHANGED <<pc, itdb, unsynced, idx, done, total, rmv,
                                         result, run>>
                     ELSE /\ btn_sync' = FALSE
                          /\ stack' = <<Frame>> \o stack
                          /\ StartRun(mountpoint', o, "click", NoRun)
    /\ UNCHANGED <<catalogVars, files, mounted, sysInfoExt, btn_eject, importVars>>

\* the inner _on_sync_clicked has returned: the callback of the suspended call
\* goes on
Resume ==
    /\ pc \in {"done", "raised"}
    /\ stack # <<>>
    /\ LET f == Head(stack)
       IN  /\ pc' = f.pc
           /\ itdb' = f.itdb
           /\ unsynced' = f.unsynced
           /\ idx' = f.idx
           /\ done' = f.done
           /\ total' = f.total
           /\ rmv' = f.rmv
           /\ result' = f.result
           /\ run' = f.run
    /\ stack' = Tail(stack)
    /\ caller' = "click"
    /\ UNCHANGED <<catalogVars, op, boot, files, deviceVars, btn_sync, btn_eject,
                   importVars>>

-----------------------------------------------------------------------------

Next ==
    \/ \E p \in Paths \cup ArtPaths : AddTrack(p)
    \/ \E id \in Ids : RemoveClicked(id)
    \/ \E p \in PlaylistPaths : AddTrackFromWorker(p)
    \/ \E p \in Volatile : FileChanged(p)
    \/ MountChanged
    \/ Initialise
    \/ SyncCalled
    \/ SyncClicked
    \/ SyncAddStep
    \/ SyncCollect
    \/ SyncRemoveStep
    \/ SyncPurge
    \/ SyncWrite

Spec == Init /\ [][Next]_vars

SpecArt == InitArt /\ [][Next]_vars

SpecBoot == InitBoot /\ [][Next]_vars

\* the handlers, and those run from inside the progress callback
NextUI ==
    \/ Next
    \/ PumpMountChanged
    \/ PumpSyncClicked
    \/ Resume

SpecUI == InitUI /\ [][NextUI]_vars

-----------------------------------------------------------------------------
\* The playlist import, thread and main loop, and the Eject button

\* the <location> entries of the playlist file, in order (parse_xspf)
Playlist == <<"p1", "q1">>

\* a callback posted with GLib.idle_add
IdleOf(cb, p) == [cb |-> cb, path |-> p]

\* the main loop running the idle callback added last first
PopIdle_lifo(q) == [e |-> q[Len(q)], rest |-> SubSeq(q, 1, Len(q) - 1)]

\* the main loop takes the idle callbacks, all of one priority, in the order
\* they were added
PopIdle(q) == [e |-> Head(q), rest |-> Tail(q)]

RECURSIVE Existing(_, _)
\* lines 491-498 of _import_worker: the paths of seq that are files
Existing(seq, fs) ==
    IF seq = <<>> THEN <<>>
    ELSE IF Head(seq) \in fs THEN <<Head(seq)>> \o Existing(Tail(seq), fs)
    ELSE Existing(Tail(seq), fs)

\* _on_import_playlist: the button of the playlist (insensitive until
\* _finish_import) is clicked; the playlist row is made and the thread started
ImportClicked ==
    /\ NotRunning
    /\ worker.pc = "off"
    /\ worker' = [NoImport EXCEPT !.pc = "classify"]
    /\ op' = NoOp
    /\ boot' = NoBoot
    /\ Between
    /\ UNCHANGED <<catalogVars, files, deviceVars, uiVars, idle>>

\* _import_worker, on its thread: parse the playlist and keep the paths that
\* are files
WorkerClassify ==
    /\ worker.pc = "classify"
    /\ worker' = [worker EXCEPT !.pc = "extract", !.todo = Existing(Playlist, files)]
    /\ UNCHANGED <<catalogVars, files, deviceVars, syncVars, op, boot, uiVars, idle>>

\* _import_worker, on its thread: extract the metadata of the next path and
\* post _add_track_from_worker; after the last path post _finish_import
WorkerPost ==
    /\ worker.pc = "extract"
    /\ Len(idle) < MaxIdle
    /\ IF worker.todo # <<>>
       THEN /\ idle' = Append(idle, IdleOf("add_track_from_worker", Head(worker.todo)))
            /\ worker' = [worker EXCEPT !.todo = Tail(@),
                                        !.posted = Append(@, Head(worker.todo))]
       ELSE /\ idle' = Append(idle, IdleOf("finish_import", "none"))
            /\ worker' = [worker EXCEPT !.pc = "exited"]
    /\ UNCHANGED <<catalogVars, files, deviceVars, syncVars, op, boot, uiVars>>

\* the main loop runs the next idle callback: _add_track_from_worker,
\* _finish_import or _post_eject
RunIdle ==
    /\ idle # <<>>
    /\ LET e == PopIdle(idle).e
       IN  /\ idle' = PopIdle(idle).rest
           /\ CASE e.cb = "add_track_from_worker" ->
                     /\ WorkerInsert(e.path)
                     /\ worker' = [worker EXCEPT !.ran = Append(@, e.path)]
                     /\ UNCHANGED <<btn_sync, btn_eject>>
                [] e.cb = "finish_import" ->
                     /\ worker' = [worker EXCEPT !.pc = "off", !.fin = TRUE]
                     /\ op' = NoOp
                     /\ UNCHANGED <<catalogVars, btn_sync, btn_eject>>
                [] OTHER ->
                     /\ btn_sync' = FALSE
                     /\ btn_eject' = FALSE
                     /\ op' = NoOp
                     /\ UNCHANGED <<catalogVars, worker>>
    /\ UNCHANGED <<files, deviceVars, boot, caller, stack>>

\* an idle callback runs between two handlers
Dispatch ==
    /\ NotRunning
    /\ RunIdle
    /\ Between

\* an idle callback runs inside the progress callback of a run
PumpDispatch ==
    /\ AtCallback
    /\ RunIdle
    /\ UNCHANGED syncVars

\* _on_eject_clicked and iPodSync.eject: the mountpoint is forgotten and the
\* volume asked to eject, which it does or fails to do; done_cb posts
\* _post_eject
Eject ==
    /\ btn_eject
    /\ mountpoint # NoMount
    /\ Len(idle) < MaxIdle
    /\ mountpoint' = NoMount
    /\ \E ejected \in BOOLEAN : mounted' = (mounted /\ ~ejected)
    /\ idle' = Append(idle, IdleOf("post_eject", "none"))
    /\ op' = NoOp
    /\ boot' = NoBoot
    /\ UNCHANGED <<catalogVars, files, sysInfoExt, ipodDb, sysInfo, uiVars, worker>>

EjectClicked ==
    /\ NotRunning
    /\ Eject
    /\ Between

\* the Eject button is clicked inside the progress callback of a run
PumpEjectClicked ==
    /\ AtCallback
    /\ Eject
    /\ UNCHANGED syncVars

\* the Remove button is clicked inside the progress callback of a run, for
\* one selected row of the list
PumpRemoveClicked(id) ==
    /\ AtCallback
    /\ id \in DOMAIN tracks
    /\ tracks[id].deleted = 0
    /\ tracks' = remove_track(tracks, id)
    /\ op' = NoOp
    /\ UNCHANGED <<nextId, playlist_tracks, ipod_artwork, boot, files, deviceVars,
                   uiVars, importVars, syncVars>>

\* the user works with the two files of the playlist
InitImport == Start({"p1", "q1"}, SysInfoDone)

\* the import of the playlist, the removal of rows and the sync run, with
\* what the main loop runs inside the progress callback
NextImport ==
    \/ \E id \in Ids : RemoveClicked(id)
    \/ SyncClicked
    \/ SyncAddStep
    \/ SyncCollect
    \/ SyncRemoveStep
    \/ SyncPurge
    \/ SyncWrite
    \/ ImportClicked
    \/ WorkerClassify
    \/ WorkerPost
    \/ Dispatch
    \/ PumpDispatch
    \/ \E id \in Ids : PumpRemoveClicked(id)

SpecImport == InitImport /\ [][NextImport]_vars

\* the device coming, going and being ejected, between the handlers and
\* inside the progress callback of a run
NextEject ==
    \/ \E p \in Paths : AddTrack(p)
    \/ \E id \in Ids : RemoveClicked(id)
    \/ MountChanged
    \/ SyncClicked
    \/ SyncAddStep
    \/ SyncCollect
    \/ SyncRemoveStep
    \/ SyncPurge
    \/ SyncWrite
    \/ Dispatch
    \/ EjectClicked
    \/ PumpDispatch
    \/ PumpEjectClicked
    \/ PumpMountChanged

SpecEject == InitUI /\ [][NextEject]_vars


-----------------------------------------------------------------------------
\* What the claims speak of

\* a sync call has just returned or raised, and its record is at hand
RunEnded == pc \in {"done", "raised"}

\* the unsynced set and the deleted set as the run found them
UnsyncedAtStart ==
    {i \in DOMAIN run.start : run.start[i].synced = 0 /\ run.start[i].deleted = 0}

\* the rows the run appended a device record for
Appended == run.copied \cup run.cpfail

\* the rows the run deleted from the catalog
Purged == DOMAIN run.start \ DOMAIN tracks

DevTracks(db) == {db.tracks[k] : k \in 1..Len(db.tracks)}

DevMpl(db) == {db.mpl[k] : k \in 1..Len(db.mpl)}

WriteFailed == pc = "raised" /\ run.writes = 1 /\ ~run.wrote

-----------------------------------------------------------------------------
\* C1: if the device database write at the end of a run fails, the sync fails
\* and the catalog is as it was before the run (no newly synced row, no purged
\* row).  The code marks and purges before it writes, so this fails.
C1_WriteFailureLeavesCatalog ==
    WriteFailed => /\ result.kind = "raised"
                   /\ tracks = run.start

\* C2: a row whose copy to the device failed keeps synced=0.  The code marks
\* the row whatever itdb_cp_track_to_ipod returned, so this fails.
C2_CopyFailureStaysUnsynced ==
    \A i \in run.cpfail : i \in DOMAIN tracks => tracks[i].synced = 0

\* C3: after a run that completes, every unsynced row whose source file was
\* missing still has synced=0 and has no device record, and every unsynced row
\* whose file existed and was copied has synced=1.
C3_MissingSkippedCopiedSynced ==
    pc = "done" =>
        /\ run.skipped \cup run.copied \cup run.cpfail = UnsyncedAtStart
        /\ \A i \in run.skipped :
              /\ i \in DOMAIN tracks
              /\ tracks[i].synced = 0
              /\ \A r \in DevTracks(ipodDb) : r.src # i
        /\ \A i \in run.copied :
              /\ i \in DOMAIN tracks
              /\ tracks[i].synced = 1

\* C3 witness: a completed run that skipped a row and copied a later one
C3_Witness ==
    /\ pc = "done"
    /\ \E i \in run.skipped : \E j \in run.copied : i < j

\* the second of two runs did nothing: no record appended, none removed, no
\* catalog row changed
SecondRunIdle ==
    /\ Appended = {}
    /\ run.marked = {}
    /\ run.removed = {}
    /\ tracks = run.start

\* C4 as claimed: a run that follows a run (one that opened the device
\* database) with no catalog change in between appends no device record,
\* removes none and changes no catalog row.  A source file that was missing in
\* the first run and is back for the second refutes it.
C4_SecondRunIdle == run.b2b => SecondRunIdle

\* C4 amended: the same, provided no source file appeared or vanished since
\* the first run
C4_SecondRunIdleSameFiles == (run.b2b /\ run.fsame) => SecondRunIdle

\* C4 witness: a second run has completed, with the same files, over a catalog
\* that still holds an unsynced row
C4_Witness ==
    /\ pc = "done"
    /\ run.b2b /\ run.fsame
    /\ run.skipped # {}

\* C5: after a completed run that found a non-empty deleted set, no device
\* record has the (title, artist, album) of a row of that set, every removed
\* record is gone from the track collection and from the master playlist, and
\* the rows of the set are gone from the catalog.
C5_DeletedGoneFromDevice ==
    (pc = "done" /\ run.deleted # {}) =>
        /\ \A r \in DevTracks(ipodDb) :
              \A i \in run.deleted : DevKey(r) # Triple(run.start[i])
        /\ \A r \in run.removed :
              /\ r \notin DevTracks(ipodDb)
              /\ r.dbid \notin DevMpl(ipodDb)
        /\ \A i \in run.deleted : i \notin DOMAIN tracks

\* C5 witness: a completed run with a non-empty deleted set removed a device
\* record that was copied from another row with the same (title, artist, album)
C5_Witness ==
    /\ pc = "done"
    /\ run.deleted # {}
    /\ Cardinality(run.removed) >= 1
    /\ \E r \in run.removed : r.src \notin run.deleted

\* C6: a row is deleted from the catalog only when the run removed a device
\* record matching it.  purge_deleted runs whenever the deleted set is not
\* empty and deletes every row with deleted=1, so this fails.
C6_PurgedOnlyIfRemoved ==
    \A i \in Purged :
        \E r \in run.removed : DevKey(r) = Triple(run.start[i])

\* C7: the unsynced set and the deleted set have no row in common.
C7_UnsyncedDeletedDisjoint ==
    {r.id : r \in {get_unsynced[k] : k \in 1..Len(get_unsynced)}}
        \cap {r.id : r \in get_deleted} = {}

\* C7 witness: both sets hold a row
C7_Witness ==
    /\ Len(get_unsynced) > 0
    /\ get_deleted # {}

\* C8: a run that reaches Done returns the counts {added, removed, failed}.
\* sync has no return statement, so this fails.
C8_ReturnsCounts ==
    pc = "done" =>
        /\ result.kind = "counts"
        /\ result.added = Cardinality(run.marked)
        /\ result.removed = Cardinality(run.removed)
        /\ result.failed = Cardinality(UnsyncedAtStart \ run.marked)

\* C9: a row that cannot be added (file missing, copy failed) does not abort
\* the run: a run that opened the device goes through every row of the
\* unsynced set, then the removals, then the write.
C9_ItemFailureDoesNotAbort ==
    /\ (pc = "raised" /\ run.opened) => run.writes = 1
    /\ (RunEnded /\ run.opened) =>
          /\ run.skipped \cup run.copied \cup run.cpfail = UnsyncedAtStart
          /\ run.phases \in
               {<<"Idle", "DeviceOpened", "Additions", "Removals", "Committing", "Done">>,
                <<"Idle", "DeviceOpened", "Additions", "Removals", "Committing", "Failed">>}
          /\ run.writes = 1

\* C9 witness: a run ended after a row failed and a later row was added
C9_Witness ==
    /\ RunEnded
    /\ \E i \in run.skipped \cup run.cpfail : \E j \in run.copied : i < j

\* C10: while the device needs initialisation no sync run adds or removes a
\* device record, writes the device database or changes the catalog.
\* iPodSync.sync never looks at needs_init, so a direct call goes through.
C10_NeedsInitRefused ==
    run.needs_init =>
        /\ Appended = {}
        /\ run.removed = {}
        /\ run.writes = 0
        /\ tracks = run.start

-----------------------------------------------------------------------------
\* Device bootstrap and catalog inserts

\* C11: for a detected device needs_init is true exactly when
\* SysInfoExtended is absent; when the external tool has run, initialise
\* returns success exactly when the file is there afterwards; and after a
\* successful initialise needs_init is false.
C11_InitialiseVerifiesMarker ==
    /\ mountpoint # NoMount => (needs_init(mountpoint, sysInfoExt) <=> ~sysInfoExt)
    /\ (boot.kind = "initialise" /\ boot.ran) => (boot.ok <=> (mounted /\ sysInfoExt))
    /\ (boot.kind = "initialise" /\ boot.ok) =>
          /\ sysInfoExt
          /\ ~needs_init(mountpoint, sysInfoExt)

\* C11 witness: initialise has just succeeded on a device that needed it
C11_Witness ==
    /\ boot.kind = "initialise"
    /\ boot.needed
    /\ boot.ok
    /\ ~needs_init(mountpoint, sysInfoExt)

\* C12: an insert (add_track or add_track_from_meta) of a file path that a
\* row with deleted=0 already holds returns no id, raises nothing, adds no
\* row and leaves every row of the catalog and of the artwork table as it was.
C12_DuplicatePathRefused ==
    (op.kind # "none" /\ op.taken) =>
        /\ op.ret = None
        /\ ~op.raised
        /\ tracks = op.before
        /\ ipod_artwork = op.art_before

\* C12 witness: an insert of a path already held was refused in a catalog
\* that holds another row too
C12_Witness ==
    /\ op.kind # "none"
    /\ op.taken
    /\ op.ret = None
    /\ Len(tracks) >= 2

\* the artwork row the last insert found for its album key held the hash of
\* the very bytes it was given
SameArtAgain ==
    /\ op.called
    /\ op.g.found # None
    /\ op.art_before[op.g.found].image_hash = Hash(op.meta.cover_art)

\* C13: a get-or-create call with the bytes the row of its album key was
\* made from returns the id of that row (the id every earlier track of the
\* album received), processes no picture and leaves the row as it was.
C13_SameArtSameId ==
    SameArtAgain =>
        /\ ~op.raised
        /\ op.g.id = op.g.found
        /\ op.g.processed = 0
        /\ ipod_artwork = op.art_before
        /\ tracks[op.ret].ipod_artwork_id = op.g.id
        /\ \A i \in DOMAIN op.before :
              (/\ op.before[i].ipod_artwork_id # None
               /\ album_key(op.before[i].artist, op.before[i].album)
                    = album_key(op.meta.artist, op.meta.album))
              => op.before[i].ipod_artwork_id = op.g.id

\* C13 witness: a second track with the same bytes was inserted after a first
\* that holds the artwork id
C13_Witness ==
    /\ SameArtAgain
    /\ op.ret # None
    /\ \E i \in DOMAIN op.before : op.before[i].ipod_artwork_id = op.g.id

\* the last insert gave get-or-create bytes with another hash than the row of
\* its album key held, and the call returned
ChangedArt ==
    /\ op.called
    /\ op.g.found # None
    /\ op.art_before[op.g.found].image_hash # Hash(op.meta.cover_art)
    /\ ~op.g.raised

\* C14: a get-or-create call that returns, given bytes whose hash differs from
\* the one stored for the album key, returns the id of the existing row,
\* overwrites its hash and picture with those of the new bytes, adds no row,
\* and leaves every track's artwork reference where it was.  (A call whose
\* bytes do not decode does not return; that is the case of C15.)
C14_ChangedArtInPlace ==
    ChangedArt =>
        /\ op.g.id = op.g.found
        /\ Len(ipod_artwork) = Len(op.art_before)
        /\ ipod_artwork[op.g.id].image_hash = Hash(op.meta.cover_art)
        /\ ipod_artwork[op.g.id].image_data = preprocess_artwork(op.meta.cover_art)
        /\ ipod_artwork[op.g.id].album_key = op.art_before[op.g.id].album_key
        /\ \A a \in DOMAIN op.art_before :
              a # op.g.id => ipod_artwork[a] = op.art_before[a]
        /\ \A i \in DOMAIN op.before :
              /\ i \in DOMAIN tracks
              /\ tracks[i].ipod_artwork_id = op.before[i].ipod_artwork_id
        /\ tracks[op.ret].ipod_artwork_id = op.g.id

\* C14 witness: the picture of an album was replaced while an earlier track
\* refers to its row
C14_Witness ==
    /\ ChangedArt
    /\ \E i \in DOMAIN op.before : op.before[i].ipod_artwork_id = op.g.id
    /\ ipod_artwork[op.g.id].image_data # op.art_before[op.g.id].image_data

\* C15: when the cover art of an inserted track does not decode, the insert
\* still returns the id of the track, nothing is raised, and the row is
\* stored, committed, without artwork reference.  add_track catches only
\* sqlite3.IntegrityError, so the error of Image.open escapes before the
\* commit: this fails.
C15_DecodeFailureNonFatal ==
    (op.called /\ op.g.raised) =>
        /\ ~op.raised
        /\ op.ret # None
        /\ op.ret \in DOMAIN tracks
        /\ tracks[op.ret].ipod_artwork_id = None
        /\ ~op.pending

\* the lines of SysInfo content c that begin with the identifier's key
GuidLines(c) == {k \in 1..Len(c) : c[k] = "G" /\ (k = 1 \/ c[k - 1] = "NL")}

\* C19: _ensure_firewire_guid leaves SysInfo unchanged when it holds an
\* identifier line or no serial was found; otherwise it appends exactly one
\* identifier line after the content, which it keeps; and the file never
\* holds more than one such line.  The text is appended without looking at
\* how the content ends, so after a last line without newline the file has
\* gained no identifier line (and the next call, finding the text, leaves it
\* so): this fails.
C19_GuidAppendedOnce ==
    boot.ensured =>
        LET c == boot.sys_before
        IN  /\ Len(sysInfo) >= Len(c)
            /\ SubSeq(sysInfo, 1, Len(c)) = c
            /\ (GuidLines(c) # {} \/ ~boot.serial) => sysInfo = c
            /\ (GuidLines(c) = {} /\ boot.serial) =>
                  Cardinality(GuidLines(sysInfo)) = 1
            /\ Cardinality(GuidLines(sysInfo)) <= 1

-----------------------------------------------------------------------------
\* The course of a run

\* the positions of entry e in the log of the run
At(e) == {k \in 1..Len(run.log) : run.log[k] = e}

\* C17: a run opens the device database before any addition, makes every
\* addition before every removal, writes the device database at most once and
\* after all additions and removals, returns normally only if that write
\* succeeded, having reported completion last, and otherwise ends in a raised
\* error; its phases are a prefix of Idle, DeviceOpened, Additions, Removals,
\* Committing, Done, or end in Failed.
C17_PhaseOrder ==
    /\ \A k \in At("add") \cup At("rm") \cup At("write") : \E o \in At("open") : o < k
    /\ \A a \in At("add") : \A r \in At("rm") : a < r
    /\ Cardinality(At("write")) <= 1
    /\ Cardinality(At("write")) = run.writes
    /\ \A w \in At("write") : \A k \in At("add") \cup At("rm") \cup At("skip") : k < w
    /\ pc = "done" =>
          /\ run.wrote
          /\ run.writes = 1
          /\ result.kind # "raised"
          /\ run.log[Len(run.log)] = "cb_done"
          /\ run.phases = <<"Idle", "DeviceOpened", "Additions", "Removals",
                            "Committing", "Done">>
    /\ At("cb_done") # {} => pc = "done"
    /\ pc = "raised" =>
          /\ result.kind = "raised"
          /\ ~run.wrote
          /\ run.phases \in {<<"Idle", "Failed">>,
                             <<"Idle", "DeviceOpened", "Additions", "Removals",
                               "Committing", "Failed">>}
    /\ ~RunEnded =>
          run.phases \in {<<>>, <<"Idle", "DeviceOpened", "Additions">>,
                          <<"Idle", "DeviceOpened", "Additions", "Removals">>}

\* C17 witness: a run that added, removed and wrote has returned
C17_Witness ==
    /\ pc = "done"
    /\ At("add") # {}
    /\ At("rm") # {}

\* C18: the progress callback is invoked once for each item the run
\* processes: once per row of the unsynced set, one skipped for its missing
\* file included, and once per device record removed.  A skipped row is
\* counted (done += 1) without the callback being invoked, so this fails.
C18_CallbackPerItem ==
    /\ Cardinality(At("cb_copy")) = Cardinality(run.skipped \cup run.copied \cup run.cpfail)
    /\ Cardinality(At("cb_rm")) = Cardinality(run.removed)

\* the run in progress has just got past lines 355-373
JustOpened == pc = "add" /\ idx = 1 /\ run.log = <<"open">>

\* C20: the opening of the device ends in one of two ways.  Either the run
\* holds a parsed database with its master playlist, the one on the device
\* (parsed at once, or the empty one written when the first parse failed),
\* and goes on to the additions; or one error is raised, for no device
\* detected, a failed initialisation, a failed second parse or a missing
\* master playlist, and the catalog is as it was.
C20_OpenOutcomes ==
    /\ JustOpened =>
          /\ run.opened
          /\ mountpoint # NoMount
          /\ itdb.valid /\ itdb.has_mpl
          /\ itdb = ipodDb
          /\ result.kind = "pending"
          /\ tracks = run.start
    /\ (RunEnded /\ ~run.opened) =>
          /\ pc = "raised"
          /\ result.kind = "raised"
          /\ result.msg \in {"No iPod detected", "Failed to initialise iPod database",
                             "Failed to parse iPod database after init",
                             "No master playlist found on iPod"}
          /\ run.log = <<>>
          /\ run.writes = 0
          /\ tracks = run.start
    /\ (run.phases # <<>> /\ ~run.opened) => RunEnded

\* C20 witness: a run over a catalog with a row has opened a device whose
\* database it had to initialise
C20_Witness ==
    /\ JustOpened
    /\ itdb = EmptyDb
    /\ tracks # <<>>

-----------------------------------------------------------------------------
\* Events during a run

\* C16: no sync run starts before the run in progress has returned, whatever
\* clicks and mount notifications are handled while the progress callback
\* runs the main loop.  _detect_ipod, run for a mount notification inside the
\* callback, makes the Sync button sensitive again; the click that follows
\* starts a run inside the first: this fails.
C16_SingleSession == stack = <<>>

-----------------------------------------------------------------------------
\* Soft delete and purge

\* C21: a row leaves the catalog only with deleted=1: in every step, each row
\* that is gone afterwards had deleted=1 before, and a step that deletes rows
\* (purge_deleted) leaves every row with deleted=0 in place and as it was.
C21_PurgeOnlyDeleted ==
    [][/\ \A i \in DOMAIN tracks \ DOMAIN tracks' : tracks[i].deleted = 1
       /\ (DOMAIN tracks \ DOMAIN tracks' # {}) =>
             \A i \in DOMAIN tracks :
                 tracks[i].deleted = 0 => /\ i \in DOMAIN tracks'
                                          /\ tracks'[i] = tracks[i]]_vars

\* C21 witness: the purge of a run has deleted a row and left another, which
\* is not soft-deleted
C21_Witness ==
    /\ pc = "write"
    /\ run.purged
    /\ Purged # {}
    /\ \E i \in DOMAIN tracks : tracks[i].deleted = 0

-----------------------------------------------------------------------------
\* The artwork table

\* the artwork table and the references to it are consistent
ArtworkConsistent ==
    /\ \A a, b \in DOMAIN ipod_artwork :
          ipod_artwork[a].album_key = ipod_artwork[b].album_key => a = b
    /\ \A i \in DOMAIN tracks :
          tracks[i].ipod_artwork_id # None =>
              /\ tracks[i].ipod_artwork_id \in DOMAIN ipod_artwork
              /\ ipod_artwork[tracks[i].ipod_artwork_id].album_key
                    = album_key(tracks[i].artist, tracks[i].album)

\* no step deletes an artwork row or changes its id or its key
ArtworkKept ==
    \A a \in DOMAIN ipod_artwork :
        /\ a \in DOMAIN ipod_artwork'
        /\ ipod_artwork'[a].album_key = ipod_artwork[a].album_key

-----------------------------------------------------------------------------
\* The catalog and the device after a run

\* the (title, artist, album) of catalog row r as the device mirrors it
DevTriple(r) == <<CStr(r.title), CStr(r.artist), CStr(r.album)>>

\* C24: after a run that completed, every row with synced=1 and deleted=0
\* that the run added in its additions phase has a record with its (title,
\* artist, album) in the written device database.  The removal loop collects
\* the records to remove from the database the additions went into, by
\* (title, artist, album): the record just added for a row that shares them
\* with a row of the deleted set is removed again, so this fails.
C24_SyncedHasRecord ==
    pc = "done" =>
        \A i \in run.marked :
            (i \in DOMAIN tracks /\ tracks[i].synced = 1 /\ tracks[i].deleted = 0) =>
                \E r \in DevTracks(ipodDb) : DevKey(r) = DevTriple(tracks[i])

\* C25: every record a run appended that is in the device database it wrote
\* belongs to a row whose file was copied to the device: a row whose copy
\* failed has no record there.  The
\* record is added to the track list and the master playlist before the copy,
\* and a failed copy only prints a warning: this fails.
C25_RecordsHaveMedia ==
    pc = "done" =>
        \A i \in run.cpfail : \A r \in DevTracks(ipodDb) : r.src # i

\* C26: after a run that completed no row of the catalog has deleted=1.
\* purge_deleted runs only when get_deleted (deleted=1 AND synced=1) gave a
\* row, so soft-deleted rows that were never synced stay: this fails.
C26_NoSoftDeletedLeft ==
    pc = "done" => \A i \in DOMAIN tracks : tracks[i].deleted # 1

-----------------------------------------------------------------------------
\* Progress

\* fraction f is at most fraction g
FracLeq(f, g) == f[1] * g[2] <= g[1] * f[2]

\* C29: within a run every fraction passed to the progress callback lies
\* between 0 and 1, and no fraction is smaller than the one before it.
\* total counts the rows of the deleted set, done the device records removed:
\* with two records for one deleted row the last removal reports 1/1 and the
\* write then reports 0.95 (and with three, a removal reports 2/1).
C29_FractionsMonotone ==
    /\ \A k \in 1..Len(run.fracs) :
          /\ FracLeq(<<0, 1>>, run.fracs[k])
          /\ FracLeq(run.fracs[k], <<1, 1>>)
    /\ \A k \in 1..(Len(run.fracs) - 1) : FracLeq(run.fracs[k], run.fracs[k + 1])

-----------------------------------------------------------------------------
\* Import of a soft-deleted track

\* C30: when the import delivers a path whose row is soft-deleted, the row
\* gets deleted=0 and is otherwise as it was (same id, same synced flag), no
\* other row changes, and the row is a member of the playlist; and the sync
\* run that follows neither purges the row nor removes its device record.
\* The removal loop matches by (title, artist, album), so the record of the
\* restored row goes with that of a soft-deleted row of the same triple (the
\* defect of C24): the last part fails.
C30_RestoredOnImport ==
    /\ RestoredBy(op) # None =>
          LET i == RestoredBy(op)
          IN  /\ DOMAIN tracks = DOMAIN op.before
              /\ tracks = [op.before EXCEPT ![i].deleted = 0]
              /\ i \in playlist_tracks
    /\ (pc = "done" /\ run.restored # None) =>
          /\ run.restored \in DOMAIN tracks
          /\ tracks[run.restored].deleted = 0
          /\ \A r \in run.removed : r.src # run.restored

-----------------------------------------------------------------------------
\* The import thread and the main loop

IsInsert(e) == e.cb = "add_track_from_worker"

\* the paths whose _add_track_from_worker waits in the idle queue, in order
WaitingInserts ==
    LET w == SelectSeq(idle, IsInsert)
    IN  [k \in 1..Len(w) |-> w[k].path]

\* the insertions of the import have run in the order the thread posted them,
\* those that have not run wait in that order, and _finish_import has run
\* only after them all
ImportInOrder ==
    /\ Len(worker.ran) <= Len(worker.posted)
    /\ worker.ran = SubSeq(worker.posted, 1, Len(worker.ran))
    /\ worker.pc # "off" =>
          WaitingInserts = SubSeq(worker.posted, Len(worker.ran) + 1, Len(worker.posted))
    /\ worker.fin => /\ worker.ran = worker.posted
                     /\ worker.todo = <<>>
                     /\ WaitingInserts = <<>>

\* this step is one of the import thread
ThreadStep ==
    /\ worker.pc \in {"classify", "extract"}
    /\ worker'.pc # worker.pc \/ worker'.todo # worker.todo

\* C23: the thread of a playlist import never changes the catalog; the
\* insertions (with undelete and playlist membership) it posts run on the
\* main loop in the order posted, and _finish_import runs only after all of
\* them.
C23_ImportOnMainLoop == []ImportInOrder /\ [][ThreadStep => UNCHANGED catalogVars]_vars

\* C23 witness: an import of both files of the playlist has finished, and
\* both rows are members of the playlist
C23_Witness ==
    /\ worker.fin
    /\ worker.ran = Playlist
    /\ Cardinality(playlist_tracks) = 2

\* a sync run is between opening the device database and the end of its write
InRun == pc \in {"add", "remove", "write"}

\* C27: while a run is in progress the catalog differs from the catalog at
\* its start only by what the run did: rows it marked synced, and rows with
\* deleted=1 it purged.  The progress callback runs the main loop, which
\* dispatches a click on Remove and the _add_track_from_worker callbacks of
\* an import inside the run: this fails.
C27_CatalogOnlyBySync ==
    InRun =>
        /\ \A i \in DOMAIN tracks :
              /\ i \in DOMAIN run.start
              /\ \/ tracks[i] = run.start[i]
                 \/ /\ i \in run.marked
                    /\ tracks[i] = [run.start[i] EXCEPT !.synced = 1]
        /\ \A i \in DOMAIN run.start \ DOMAIN tracks :
              run.purged /\ run.start[i].deleted = 1

\* C28: while a run is in progress the mountpoint the run began with is not
\* reset: no eject and no mount notification is acted on before the run has
\* ended.  Both handlers run from the main loop inside the progress callback;
\* iPodSync.eject and detect_ipod set mountpoint to None: this fails.
C28_NoEjectDuringRun == InRun => mountpoint # NoMount

====
